---- MODULE Spec2Model ----
(***************************************************************************)
(* Model of the task-segmentation and workflow-mining scripts of the       *)
(* synapse-firefox-addon repository:                                       *)
(*   scripts/experiment_3_user_study.py        (UserStudyAnalyzer)         *)
(*   scripts/experiment_4_workflow_analysis.py (WorkflowAnalysisExperiment)*)
(*                                                                         *)
(* Conventions.                                                            *)
(*  - Timestamps are integer milliseconds, as in the CSV.  The code turns  *)
(*    differences into float seconds (.total_seconds()) and compares them  *)
(*    with thresholds in seconds; the model keeps milliseconds and scales  *)
(*    the threshold by 1000, which is the same comparison.                 *)
(*  - A pandas frame is a sequence of records; the field idx is the index  *)
(*    label of the row (the 0-based position of the row in the CSV file).  *)
(*    sort_values keeps the labels, it does not renumber them.             *)
(*  - A url is a sequence of one-character strings; NaN is the missing     *)
(*    value of a url cell.  NaT is the missing value of time_since_last.   *)
(***************************************************************************)
EXTENDS Integers, Sequences, FiniteSets, TLC

VARIABLES
    program,            \* the script that was started: "experiment_3" or "experiment_4"
    args,               \* experiment_4: the options parse_args returned, <<>> elsewhere
    pc,                 \* position of the running script
    csv,                \* the rows of the cleaned data file, in file order
    sort_order,         \* the row order sort_values returns for this file, <<>> before
                        \* the first sort (the same file sorts the same way each time)
    call,               \* "run_analysis" inside a call of run_analysis, "" otherwise
    df,                 \* self.df
    task_boundaries,    \* segment_tasks: the set task_boundaries (index labels)
    sorted_boundaries,  \* segment_tasks: sorted(task_boundaries)
    bpos,               \* segment_tasks: position of the for loop in sorted_boundaries
    current_task_id,    \* segment_tasks: current_task_id
    last_boundary,      \* segment_tasks: last_boundary
    workflow_events,    \* self.workflow_events of WorkflowAnalysisExperiment
    min_length,         \* detect_cross_tab_workflows: argument min_length
    max_gap_seconds,    \* detect_cross_tab_workflows: argument max_gap_seconds
    wpos,               \* detect_cross_tab_workflows: position of the for loop
    current_sequence,   \* detect_cross_tab_workflows: current_sequence
    last_timestamp,     \* detect_cross_tab_workflows: last_timestamp, <<>> for None
    tab_switches,       \* detect_cross_tab_workflows: tab_switches
    workflows,          \* detect_cross_tab_workflows: workflows
    workflow_patterns,  \* self.workflow_patterns
    clipboard_chains,   \* the list detect_clipboard_chains returned
    clipboard_analysis, \* self.clipboard_analysis, <<>> while the attribute is not set
    results,            \* self.results, <<>> for the empty dict
    outcomes,           \* what each finished call of main() left behind
    task_data,          \* classify_task_type: the argument task_data
    task_type,          \* classify_task_type: the value returned, "" before the call
    efficiency_analysis, \* the dict analyze_workflow_efficiency returned, <<>> for {}
    task_stats          \* the dict detect_task_patterns returned, <<>> before the call

segVars == <<task_boundaries, sorted_boundaries, bpos, current_task_id, last_boundary>>

scanVars == <<min_length, max_gap_seconds, wpos, current_sequence, last_timestamp,
              tab_switches, workflows>>

wfVars == <<workflow_events, scanVars, workflow_patterns, clipboard_chains,
            clipboard_analysis, results, outcomes>>

clsVars == <<task_data, task_type>>

runVars == <<program, args, efficiency_analysis, task_stats>>

vars == <<pc, csv, sort_order, call, df, segVars, wfVars, clsVars, runVars>>

----------------------------------------------------------------------------
(* Bounds and input alphabets                                              *)

MaxLen == 3

NaN == <<"NaN">>
NaT == -1

Times == {0, 31000, 61000}

UrlA == <<"a">>
UrlB == <<"b">>
Urls == {UrlA, UrlB}

\* (event_type, action_subtype) pairs of the rows
Kinds == { <<"user_action_click", "click">>,
           <<"user_action_form_submit", "submit">> }

MkRow(t, u, k) ==
    [timestamp |-> t, url |-> u, event_type |-> k[1], action_subtype |-> k[2]]

Rows == { MkRow(t, u, k) : t \in Times, u \in Urls, k \in Kinds }

SeqsUpTo(S, n) == UNION { [1..m -> S] : m \in 1..n }

----------------------------------------------------------------------------
(* UserStudyAnalyzer.preprocess_data                                       *)

Range(s) == { s[i] : i \in 1..Len(s) }

\* The row orders df.sort_values('datetime') can return: every order of the
\* rows that is non-decreasing in the timestamp.  The default kind is
\* quicksort, which is not stable, so rows with equal timestamps come out in
\* an order the caller does not control; the index labels travel with the rows.
SortOrders(rows) ==
    { p \in [1..Len(rows) -> 1..Len(rows)] :
        /\ \A i, j \in 1..Len(rows) : i # j => p[i] # p[j]
        /\ \A i \in 1..Len(rows) - 1 :
              rows[p[i]].timestamp <= rows[p[i + 1]].timestamp }

\* df['datetime'].diff().dt.total_seconds(), in milliseconds; NaT in the first row
TimeSinceLast(rows, p, k) ==
    IF k = 1 THEN NaT
    ELSE rows[p[k]].timestamp - rows[p[k - 1]].timestamp

SessionGapSeconds == 300

\* a break test that also fires at a gap of exactly 300 s
SessionBreakInclusive(tsl) == tsl # NaT /\ tsl >= SessionGapSeconds * 1000

\* session_breaks = time_since_last > 300 (a comparison with NaT is False)
SessionBreak(tsl) == tsl # NaT /\ tsl > SessionGapSeconds * 1000

\* session_breaks.cumsum()
RECURSIVE SessionId(_, _, _)
SessionId(rows, p, k) ==
    IF k = 0 THEN 0
    ELSE SessionId(rows, p, k - 1)
         + (IF SessionBreak(TimeSinceLast(rows, p, k)) THEN 1 ELSE 0)

Frame(rows, p) ==
    [k \in 1..Len(rows) |->
        [idx |-> p[k] - 1,
         timestamp |-> rows[p[k]].timestamp,
         url |-> rows[p[k]].url,
         event_type |-> rows[p[k]].event_type,
         action_subtype |-> rows[p[k]].action_subtype,
         time_since_last |-> TimeSinceLast(rows, p, k),
         session_id |-> SessionId(rows, p, k)]]

----------------------------------------------------------------------------
(* UserStudyAnalyzer.identify_task_start_pages                             *)

task_start_patterns ==
    << <<"d", "a", "s", "h", "b", "o", "a", "r", "d">>,
       <<"h", "o", "m", "e">>,
       <<"m", "a", "i", "n">>,
       <<"i", "n", "d", "e", "x">>,
       <<"t", "a", "s", "k">>,
       <<"a", "s", "s", "i", "g", "n", "m", "e", "n", "t">>,
       <<"w", "o", "r", "k">>,
       <<"n", "e", "w">>,
       <<"c", "r", "e", "a", "t", "e">>,
       <<"a", "d", "d">>,
       <<"l", "o", "g", "i", "n">>,
       <<"s", "i", "g", "n", "i", "n">>,
       <<"a", "u", "t", "h">> >>

UpperCase == <<"A", "B", "C", "D", "E", "F", "G", "H", "I", "J", "K", "L", "M", "N", "O", "P", "Q", "R", "S", "T", "U", "V", "W", "X", "Y", "Z">>
LowerCase == <<"a", "b", "c", "d", "e", "f", "g", "h", "i", "j", "k", "l", "m", "n", "o", "p", "q", "r", "s", "t", "u", "v", "w", "x", "y", "z">>

\* str.lower() on one character
LowerChar(c) ==
    IF \E i \in 1..Len(UpperCase) : UpperCase[i] = c
    THEN LowerCase[CHOOSE i \in 1..Len(UpperCase) : UpperCase[i] = c]
    ELSE c

Lower(u) == [i \in 1..Len(u) |-> LowerChar(u[i])]

\* pattern in url_lower
Contains(u, pat) ==
    \E i \in 1..(Len(u) - Len(pat) + 1) : SubSeq(u, i, i + Len(pat) - 1) = pat

\* the urls of the frame (NaN dropped) that contain one of the patterns
identify_task_start_pages(d) ==
    { u \in { d[k].url : k \in 1..Len(d) } \ {NaN} :
        \E j \in 1..Len(task_start_patterns) :
            Contains(Lower(u), task_start_patterns[j]) }

----------------------------------------------------------------------------
(* UserStudyAnalyzer.detect_behavioral_task_boundaries                     *)

IsClick(r) == r.action_subtype = "click"
IsTextInput(r) == r.action_subtype = "text_input"

\* the positions of the rows of click_events among the first k rows, in row order
RECURSIVE ClickPositions(_, _)
ClickPositions(d, k) ==
    IF k = 0 THEN <<>>
    ELSE IF IsClick(d[k]) THEN Append(ClickPositions(d, k - 1), k)
         ELSE ClickPositions(d, k - 1)

SearchWindowSeconds == 5

\* 1. the first click, in row order, among the rows whose label is greater than
\*    the label of a text_input row and whose time is at most 5 s after it
SearchSelectBoundaries(d) ==
    { d[c].idx : c \in
        { c \in 1..Len(d) :
            \E s \in 1..Len(d) :
                LET following(k) ==
                        /\ d[k].idx > d[s].idx
                        /\ d[k].timestamp <= d[s].timestamp + SearchWindowSeconds * 1000
                        /\ IsClick(d[k])
                IN  /\ IsTextInput(d[s])
                    /\ following(c)
                    /\ \A k \in 1..(c - 1) : ~following(k) } }

\* 2. every row of type user_action_clipboard
ClipboardBoundaries(d) ==
    { d[k].idx : k \in { k \in 1..Len(d) : d[k].event_type = "user_action_clipboard" } }

RapidClickSeconds == 2

\* 3. click_intervals < 2 for the i-th click (1-based); the first interval is NaT
RapidClicking(d, clicks, i) ==
    /\ i > 1
    /\ d[clicks[i]].timestamp - d[clicks[i - 1]].timestamp < RapidClickSeconds * 1000

RapidClickBoundaries(d) ==
    LET clicks == ClickPositions(d, Len(d))
    IN  IF Len(clicks) > 1
        THEN { d[clicks[i]].idx : i \in
                 { i \in 2..Len(clicks) :
                     ~RapidClicking(d, clicks, i) /\ RapidClicking(d, clicks, i - 1) } }
        ELSE {}

detect_behavioral_task_boundaries(d) ==
    SearchSelectBoundaries(d) \cup ClipboardBoundaries(d) \cup RapidClickBoundaries(d)

----------------------------------------------------------------------------
(* UserStudyAnalyzer.segment_tasks: the boundary rules                     *)

\* 1. url.ne(url.shift()): the first row, every row whose url differs from the
\*    url of the row before it, and every row with a missing url (NaN != NaN)
NavigationIndices(d) ==
    { d[k].idx : k \in
        { k \in 1..Len(d) : k = 1 \/ d[k].url = NaN \/ d[k].url # d[k - 1].url } }

\* 2. rows of type user_action_form_submit
FormSubmitIndices(d) ==
    { d[k].idx : k \in { k \in 1..Len(d) : d[k].event_type = "user_action_form_submit" } }

TaskPauseSeconds == 30

\* a long-pause test that also fires at exactly 30 s
LongPauseInclusive(tsl) == tsl # NaT /\ tsl >= TaskPauseSeconds * 1000

\* 3. time_since_last > 30 (a comparison with NaT is False)
LongPause(tsl) == tsl # NaT /\ tsl > TaskPauseSeconds * 1000

LongPauses(d) ==
    { d[k].idx : k \in { k \in 1..Len(d) : LongPause(d[k].time_since_last) } }

\* 4. rows whose url is one of the task start pages
TaskStartIndices(d) ==
    { d[k].idx : k \in { k \in 1..Len(d) : d[k].url \in identify_task_start_pages(d) } }

\* a boundary set that always holds index 0
TaskBoundariesWithZero(d) ==
    {0} \cup NavigationIndices(d) \cup FormSubmitIndices(d) \cup LongPauses(d)
        \cup TaskStartIndices(d) \cup detect_behavioral_task_boundaries(d)

TaskBoundaries(d) ==
    NavigationIndices(d) \cup FormSubmitIndices(d) \cup LongPauses(d)
        \cup TaskStartIndices(d) \cup detect_behavioral_task_boundaries(d)

\* sorted(task_boundaries)
RECURSIVE Sorted(_)
Sorted(S) ==
    IF S = {} THEN <<>>
    ELSE LET m == CHOOSE x \in S : \A y \in S : x <= y
         IN  <<m>> \o Sorted(S \ {m})

----------------------------------------------------------------------------
(* UserStudyAnalyzer.segment_tasks: assignment of the task ids             *)

\* position of the row with index label l
Pos(d, l) == CHOOSE k \in 1..Len(d) : d[k].idx = l

\* df.loc[a:b, 'task_id'] = v.  A label slice of a frame with unique labels
\* runs from the position of label a to the position of label b, both
\* included, and is empty when a lies after b.
LocAssign(d, a, b, v) ==
    [k \in 1..Len(d) |->
        IF Pos(d, a) <= k /\ k <= Pos(d, b) THEN [d[k] EXCEPT !.task_id = v] ELSE d[k]]

\* df.loc[a:, 'task_id'] = v
LocAssignFrom(d, a, v) ==
    [k \in 1..Len(d) |->
        IF Pos(d, a) <= k THEN [d[k] EXCEPT !.task_id = v] ELSE d[k]]

\* the attributes of WorkflowAnalysisExperiment while no such object exists
WfIdle ==
    /\ workflow_events = <<>>
    /\ min_length = 0
    /\ max_gap_seconds = 0
    /\ wpos = 0
    /\ current_sequence = <<>>
    /\ last_timestamp = <<>>
    /\ tab_switches = 0
    /\ workflows = <<>>
    /\ workflow_patterns = <<>>
    /\ clipboard_chains = <<>>
    /\ clipboard_analysis = <<>>
    /\ results = <<>>
    /\ outcomes = <<>>
    /\ efficiency_analysis = <<>>
    /\ task_stats = <<>>

\* the defaults of detect_cross_tab_workflows, which are also the defaults of
\* the options --min-length and --max-gap
DefaultMinLength == 3
DefaultMaxGapSeconds == 30

\* parser.parse_args(): the options --min-length and --max-gap
DefaultArgs == [min_length |-> DefaultMinLength, max_gap |-> DefaultMaxGapSeconds]
ArgMinLengths == {2, DefaultMinLength}
ArgMaxGaps == {10, DefaultMaxGapSeconds}
Args == [min_length : ArgMinLengths, max_gap : ArgMaxGaps]

\* no call of classify_task_type
ClsIdle ==
    /\ task_data = <<>>
    /\ task_type = ""

\* the locals of segment_tasks while it is not running
SegIdle ==
    /\ task_boundaries = {}
    /\ sorted_boundaries = <<>>
    /\ bpos = 0
    /\ current_task_id = 0
    /\ last_boundary = 0

----------------------------------------------------------------------------
(* The run of UserStudyAnalyzer.__init__                                   *)

\* UserStudyAnalyzer.__init__ after read_csv
SegFresh ==
    /\ program = "experiment_3"
    /\ args = <<>>
    /\ pc = "loaded"
    /\ sort_order = <<>>
    /\ call = ""
    /\ df = <<>>
    /\ task_boundaries = {}
    /\ sorted_boundaries = <<>>
    /\ bpos = 0
    /\ current_task_id = 0
    /\ last_boundary = 0
    /\ WfIdle
    /\ ClsIdle

InitSeg ==
    /\ csv \in SeqsUpTo(Rows, MaxLen)
    /\ SegFresh

\* files with gaps around the session threshold
MaxSessLen == 4
SessTimes == {0, 300000, 601000}
SessRows == { MkRow(t, UrlA, k) : t \in SessTimes, k \in Kinds }

InitSess ==
    /\ csv \in SeqsUpTo(SessRows, MaxSessLen)
    /\ SegFresh

\* files of clicks, text inputs and clipboard events on one page, spaced around
\* the rapid-click threshold; the rows carry their clipboard_operation column
MaxBehLen == 3
BehTimes == {0, 1000, 3000}
BehKinds == { <<"user_action_click", "click", "NaN">>,
              <<"user_action_text_input", "text_input", "NaN">>,
              <<"user_action_clipboard", "copy", "copy">>,
              <<"user_action_clipboard", "paste", "paste">> }
BehRows ==
    { [timestamp |-> t, url |-> UrlA, event_type |-> k[1], action_subtype |-> k[2],
       clipboard_operation |-> k[3]] : t \in BehTimes, k \in BehKinds }

InitBeh ==
    /\ csv \in SeqsUpTo(BehRows, MaxBehLen)
    /\ SegFresh

\* files of clicks on a plain page, on a task start page ("New" holds the
\* keyword new) and without url
MaxStartLen == 3
UrlNew == <<"N", "e", "w">>
StartRows ==
    { MkRow(t, u, <<"user_action_click", "click">>) :
        t \in {0, 1000, 2000}, u \in {UrlA, UrlNew, NaN} }

InitStart ==
    /\ csv \in SeqsUpTo(StartRows, MaxStartLen)
    /\ SegFresh

\* preprocess_data, up to the call of segment_tasks
PreprocessData ==
    /\ program = "experiment_3"
    /\ pc = "loaded"
    /\ \E p \in SortOrders(csv) :
          /\ sort_order \in {<<>>, p}
          /\ sort_order' = p
          /\ df' = Frame(csv, p)
    /\ pc' = "preprocessed"
    /\ UNCHANGED <<csv, call, segVars, wfVars, clsVars, runVars>>

\* segment_tasks, up to the loop over the sorted boundaries
DetectBoundaries ==
    /\ pc = "preprocessed"
    /\ df' = [k \in 1..Len(df) |->
                [idx |-> df[k].idx,
                 timestamp |-> df[k].timestamp,
                 url |-> df[k].url,
                 event_type |-> df[k].event_type,
                 action_subtype |-> df[k].action_subtype,
                 time_since_last |-> df[k].time_since_last,
                 session_id |-> df[k].session_id,
                 task_id |-> -1]]
    /\ task_boundaries' = TaskBoundaries(df)
    /\ sorted_boundaries' = Sorted(TaskBoundaries(df))
    /\ bpos' = 1
    /\ current_task_id' = 0
    /\ last_boundary' = 0
    /\ pc' = "assign"
    /\ UNCHANGED <<csv, sort_order, call, wfVars, clsVars, runVars>>

\* one iteration of: for boundary in sorted_boundaries
AssignStep ==
    /\ pc = "assign"
    /\ bpos <= Len(sorted_boundaries)
    /\ LET boundary == sorted_boundaries[bpos]
       IN  /\ IF boundary > last_boundary
              THEN /\ df' = LocAssign(df, last_boundary, boundary - 1, current_task_id)
                   /\ current_task_id' = current_task_id + 1
              ELSE UNCHANGED <<df, current_task_id>>
           /\ last_boundary' = boundary
    /\ bpos' = bpos + 1
    /\ UNCHANGED <<pc, csv, sort_order, call, task_boundaries, sorted_boundaries, wfVars, clsVars, runVars>>

\* the last segment, after the loop
AssignLast ==
    /\ pc = "assign"
    /\ bpos > Len(sorted_boundaries)
    /\ IF last_boundary < Len(df)
       THEN df' = LocAssignFrom(df, last_boundary, current_task_id)
       ELSE UNCHANGED df
    /\ pc' = "done"
    /\ UNCHANGED <<csv, sort_order, call, task_boundaries, sorted_boundaries, bpos,
                   current_task_id, last_boundary, wfVars, clsVars, runVars>>

NextSeg == PreprocessData \/ DetectBoundaries \/ AssignStep \/ AssignLast

----------------------------------------------------------------------------
(* UserStudyAnalyzer.analyze_task_efficiency                               *)

\* task_patterns of analyze_task_efficiency
task_patterns ==
    [search_task |-> <<"text_input", "click">>,
     copy_paste_task |-> <<"click", "keydown", "click">>,
     navigation_task |-> <<"click", "click">>,
     form_filling |-> <<"click", "text_input", "click">>]

\* the default of the parameter window_size of find_pattern_sequences
DefaultWindowSize == 10

\* matches_pattern: pattern is a run of consecutive elements of actions
matches_pattern(actions, pattern) ==
    IF Len(actions) < Len(pattern) THEN FALSE
    ELSE \E i \in 0..(Len(actions) - Len(pattern)) :
            SubSeq(actions, i + 1, i + Len(pattern)) = pattern

\* self.df['session_id'].unique(): the ids in the order of their first row
RECURSIVE UniqueSessionIds(_, _)
UniqueSessionIds(d, k) ==
    IF k = 0 THEN <<>>
    ELSE LET before == UniqueSessionIds(d, k - 1)
         IN  IF d[k].session_id \in Range(before) THEN before
             ELSE Append(before, d[k].session_id)

\* self.df[self.df['session_id'] == session_id], rows 1..k of the frame
RECURSIVE SessionDf(_, _, _)
SessionDf(d, session_id, k) ==
    IF k = 0 THEN <<>>
    ELSE IF d[k].session_id = session_id
         THEN Append(SessionDf(d, session_id, k - 1), d[k])
         ELSE SessionDf(d, session_id, k - 1)

\* session_df.iloc[i:i+window_size], i counted from 0
Window(session_df, i, window_size) ==
    SubSeq(session_df, i + 1,
           IF i + window_size < Len(session_df) THEN i + window_size
           ELSE Len(session_df))

\* window['action_subtype'].tolist()
Actions(window) == [k \in 1..Len(window) |-> window[k].action_subtype]

\* len(window[window['action_subtype'] == value])
RECURSIVE CountActions(_, _, _)
CountActions(window, value, k) ==
    IF k = 0 THEN 0
    ELSE CountActions(window, value, k - 1)
         + (IF window[k].action_subtype = value THEN 1 ELSE 0)

\* a completion test that wants more actions than the pattern has
CompletedStrict(actions, pattern) == Len(actions) > Len(pattern)

\* completed = len(actions) >= len(pattern)
Completed(actions, pattern) == Len(actions) >= Len(pattern)

\* the dict appended for one matching window; the duration is kept in
\* milliseconds
SequenceRecord(window, pattern, session_id) ==
    [start_time |-> window[1].timestamp,
     end_time |-> window[Len(window)].timestamp,
     duration |-> window[Len(window)].timestamp - window[1].timestamp,
     clicks |-> CountActions(window, "click", Len(window)),
     keystrokes |-> CountActions(window, "keydown", Len(window)),
     completed |-> Completed(Actions(window), pattern),
     session_id |-> session_id]

\* for i in range(n): the dicts appended for the windows 0..n-1 of one session
RECURSIVE SessionSequences(_, _, _, _, _)
SessionSequences(session_df, pattern, window_size, session_id, n) ==
    IF n <= 0 THEN <<>>
    ELSE LET before == SessionSequences(session_df, pattern, window_size,
                                        session_id, n - 1)
             window == Window(session_df, n - 1, window_size)
         IN  IF matches_pattern(Actions(window), pattern)
             THEN Append(before, SequenceRecord(window, pattern, session_id))
             ELSE before

\* for session_id in unique(): the dicts of the first k sessions
RECURSIVE PatternSequences(_, _, _, _, _)
PatternSequences(d, ids, pattern, window_size, k) ==
    IF k = 0 THEN <<>>
    ELSE LET before == PatternSequences(d, ids, pattern, window_size, k - 1)
             session_df == SessionDf(d, ids[k], Len(d))
         IN  IF Len(session_df) < Len(pattern) THEN before
             ELSE before \o SessionSequences(session_df, pattern, window_size, ids[k],
                                             Len(session_df) - Len(pattern) + 1)

find_pattern_sequences(d, pattern, window_size) ==
    LET ids == UniqueSessionIds(d, Len(d))
    IN  PatternSequences(d, ids, pattern, window_size, Len(ids))

RECURSIVE SumField(_, _, _)
SumField(tasks, field, k) ==
    IF k = 0 THEN 0 ELSE SumField(tasks, field, k - 1) + tasks[k][field]

RECURSIVE CountCompleted(_, _)
CountCompleted(tasks, k) ==
    IF k = 0 THEN 0
    ELSE CountCompleted(tasks, k - 1) + (IF tasks[k].completed THEN 1 ELSE 0)

\* the entry of task_stats for one pattern; a mean and the success rate are
\* kept as the pair <<numerator, denominator>>
TaskStatsEntry(tasks) ==
    [count |-> Len(tasks),
     avg_duration |-> <<SumField(tasks, "duration", Len(tasks)), Len(tasks)>>,
     avg_clicks |-> <<SumField(tasks, "clicks", Len(tasks)), Len(tasks)>>,
     success_rate |-> <<CountCompleted(tasks, Len(tasks)), Len(tasks)>>,
     tasks |-> tasks]

\* detect_task_patterns: an entry for every pattern that was found
detect_task_patterns(d, patterns) ==
    LET found == { name \in DOMAIN patterns :
                     find_pattern_sequences(d, patterns[name], DefaultWindowSize) # <<>> }
    IN  [name \in found |->
            TaskStatsEntry(find_pattern_sequences(d, patterns[name], DefaultWindowSize))]

\* files of clicks, text inputs and key presses in up to two sessions
MaxPatLen == 4
PatTimes == {0, 400000}
PatKinds == { <<"user_action_click", "click">>,
              <<"user_action_text_input", "text_input">>,
              <<"user_action_keydown", "keydown">> }
PatRows == { MkRow(t, UrlA, k) : t \in PatTimes, k \in PatKinds }

InitPat ==
    /\ csv \in SeqsUpTo(PatRows, MaxPatLen)
    /\ SegFresh

\* main: analyzer.analyze_task_efficiency(), after UserStudyAnalyzer.__init__
AnalyzeTaskEfficiency ==
    /\ program = "experiment_3"
    /\ pc = "done"
    /\ task_stats' = detect_task_patterns(df, task_patterns)
    /\ pc' = "task_efficiency_analyzed"
    /\ UNCHANGED <<program, args, efficiency_analysis, csv, sort_order, call, df,
                   segVars, wfVars, clsVars>>

NextPat == NextSeg \/ AnalyzeTaskEfficiency

SpecPat == InitPat /\ [][NextPat]_vars

SpecSeg == InitSeg /\ [][NextSeg]_vars

SpecSess == InitSess /\ [][NextSeg]_vars

SpecBeh == InitBeh /\ [][NextSeg]_vars

SpecStart == InitStart /\ [][NextSeg]_vars

----------------------------------------------------------------------------
(* WorkflowAnalysisExperiment: rows of the cleaned data file               *)
(* An event_type is the sequence of its dot-separated parts:               *)
(* 'ui.click' is <<"ui", "click">>.                                        *)

MaxWfLen == 4
MaxClipLen == 3

MkEvent(t, ty, tab, sub, op, dom) ==
    [timestamp |-> t, event_type |-> ty, tab_id |-> tab, action_subtype |-> sub,
     clipboard_operation |-> op, domain |-> dom]

NoValue == "NaN"

\* the tab_id read_csv gives a row whose tab_id cell is empty (a float NaN)
AbsentTab == -1

WfTimes == {0, 30000, 61000}
Tabs == {1, 2}
WfRows ==
    { MkEvent(t, <<"ui", "click">>, tab, "click", NoValue, "x") : t \in WfTimes, tab \in Tabs }
    \cup
    { MkEvent(t, <<"page", "load">>, tab, "load", NoValue, "x") : t \in WfTimes, tab \in Tabs }

MinLengths == {2, 3}
MaxGaps == {30}

ClipTimes == {0, 60000, 600000, 700000}
ClipRows ==
    { MkEvent(t, <<"ui", "clipboard">>, 1, op, op, dom) :
        t \in ClipTimes, op \in {"copy", "paste", "cut"}, dom \in {"x", "y"} }

IsSortedByTime(rows) ==
    \A i \in 1..(Len(rows) - 1) : rows[i].timestamp <= rows[i + 1].timestamp

----------------------------------------------------------------------------
(* WorkflowAnalysisExperiment.prepare_data                                 *)

\* self.df.sort_values('datetime'): the rows in the order p, with their labels
FrameWf(rows, p) ==
    [k \in 1..Len(rows) |->
        [idx |-> p[k] - 1,
         timestamp |-> rows[p[k]].timestamp,
         event_type |-> rows[p[k]].event_type,
         tab_id |-> rows[p[k]].tab_id,
         action_subtype |-> rows[p[k]].action_subtype,
         clipboard_operation |-> rows[p[k]].clipboard_operation,
         domain |-> rows[p[k]].domain]]

\* event_type.str.startswith(prefix + '.')
StartsWith(ty, prefix) ==
    Len(ty) > Len(prefix) /\ SubSeq(ty, 1, Len(prefix)) = prefix

IsWorkflowRelevant(e) ==
    \/ StartsWith(e.event_type, <<"ui">>)
    \/ StartsWith(e.event_type, <<"browser", "tab">>)
    \/ e.event_type = <<"ui", "clipboard">>

\* the workflow-relevant rows among the first k rows, in row order
RECURSIVE RelevantRows(_, _)
RelevantRows(d, k) ==
    IF k = 0 THEN <<>>
    ELSE IF IsWorkflowRelevant(d[k]) THEN Append(RelevantRows(d, k - 1), d[k])
         ELSE RelevantRows(d, k - 1)

----------------------------------------------------------------------------
(* WorkflowAnalysisExperiment.detect_cross_tab_workflows                   *)

\* the dict appended to current_sequence for an event
SequenceItem(event) ==
    [event_type |-> event.event_type, tab_id |-> event.tab_id,
     action_subtype |-> event.action_subtype, timestamp |-> event.timestamp]

\* a continuation test that breaks the sequence at a gap of exactly max_gap
ContinuesBelow(last, current_time, max_gap) ==
    \/ last = <<>>
    \/ current_time - last[1] < max_gap * 1000

\* the event continues the current sequence
Continues(last, current_time, max_gap) ==
    \/ last = <<>>
    \/ current_time - last[1] <= max_gap * 1000

\* current_sequence[-1]['tab_id'] != current_sequence[-2]['tab_id']: a NaN is
\* unequal to everything, itself included
TabIdDiffers(a, b) == a # b \/ a = AbsentTab

\* len(set(s['tab_id'] for s in current_sequence if s['tab_id'])): 0 is falsy and
\* dropped, a NaN is truthy and every NaN is a set element of its own
UniqueTabs(seq) ==
    Cardinality({ seq[i].tab_id : i \in 1..Len(seq) } \ {0, AbsentTab})
        + Cardinality({ i \in 1..Len(seq) : seq[i].tab_id = AbsentTab })

\* the dict appended to workflows; duration in milliseconds
Workflow(seq, switches) ==
    [sequence |-> seq,
     length |-> Len(seq),
     tab_switches |-> switches,
     duration |-> seq[Len(seq)].timestamp - seq[1].timestamp,
     unique_tabs |-> UniqueTabs(seq)]

\* an emission rule that forgets the tab switches
EmitsLengthOnly(seq, switches, minlen) == Len(seq) >= minlen

\* the emission rule of both flushes
Emits(seq, switches, minlen) == Len(seq) >= minlen /\ switches > 0

\* a flush that puts the new workflow in front of the list
FlushInFront(wfs, seq, switches, minlen) ==
    IF Emits(seq, switches, minlen) THEN <<Workflow(seq, switches)>> \o wfs ELSE wfs

Flush(wfs, seq, switches, minlen) ==
    IF Emits(seq, switches, minlen) THEN Append(wfs, Workflow(seq, switches)) ELSE wfs

----------------------------------------------------------------------------
(* WorkflowAnalysisExperiment.detect_clipboard_chains                      *)

IsClipboard(e) == e.event_type = <<"ui", "clipboard">>

\* a selection that takes cut events for copy events
RECURSIVE WithOperationOrCut(_, _, _)
WithOperationOrCut(d, op, k) ==
    IF k = 0 THEN <<>>
    ELSE IF d[k].clipboard_operation = op \/ (op = "copy" /\ d[k].clipboard_operation = "cut")
         THEN Append(WithOperationOrCut(d, op, k - 1), d[k])
         ELSE WithOperationOrCut(d, op, k - 1)

\* the rows among the first k rows of d with the clipboard operation op
RECURSIVE WithOperation(_, _, _)
WithOperation(d, op, k) ==
    IF k = 0 THEN <<>>
    ELSE IF d[k].clipboard_operation = op THEN Append(WithOperation(d, op, k - 1), d[k])
         ELSE WithOperation(d, op, k - 1)

\* the rows of type ui.clipboard among the first k rows of d
RECURSIVE ClipboardEvents(_, _)
ClipboardEvents(d, k) ==
    IF k = 0 THEN <<>>
    ELSE IF IsClipboard(d[k]) THEN Append(ClipboardEvents(d, k - 1), d[k])
         ELSE ClipboardEvents(d, k - 1)

\* a window test without the upper end
InWindowOpen(copy_event, paste_event, max_gap_minutes) ==
    paste_event.timestamp > copy_event.timestamp

\* paste_events['datetime'] > copy_time and <= copy_time + max_gap_minutes
InWindow(copy_event, paste_event, max_gap_minutes) ==
    /\ paste_event.timestamp > copy_event.timestamp
    /\ paste_event.timestamp <= copy_event.timestamp + max_gap_minutes * 60 * 1000

\* the dict appended to chains; duration in milliseconds
Chain(copy_event, paste_event) ==
    [copy_time |-> copy_event.timestamp,
     paste_time |-> paste_event.timestamp,
     duration |-> paste_event.timestamp - copy_event.timestamp,
     copy_domain |-> copy_event.domain,
     paste_domain |-> paste_event.domain,
     cross_domain |-> copy_event.domain # paste_event.domain]

\* the chains of one copy event with the first k paste events
RECURSIVE ChainsOfCopy(_, _, _, _)
ChainsOfCopy(copy_event, pastes, k, max_gap_minutes) ==
    IF k = 0 THEN <<>>
    ELSE IF InWindow(copy_event, pastes[k], max_gap_minutes)
         THEN Append(ChainsOfCopy(copy_event, pastes, k - 1, max_gap_minutes),
                     Chain(copy_event, pastes[k]))
         ELSE ChainsOfCopy(copy_event, pastes, k - 1, max_gap_minutes)

\* the chains of the first j copy events
RECURSIVE ChainsUpTo(_, _, _, _)
ChainsUpTo(copies, pastes, j, max_gap_minutes) ==
    IF j = 0 THEN <<>>
    ELSE ChainsUpTo(copies, pastes, j - 1, max_gap_minutes)
         \o ChainsOfCopy(copies[j], pastes, Len(pastes), max_gap_minutes)

detect_clipboard_chains(clipboard_events, max_gap_minutes) ==
    LET copy_events == WithOperation(clipboard_events, "copy", Len(clipboard_events))
        paste_events == WithOperation(clipboard_events, "paste", Len(clipboard_events))
    IN  ChainsUpTo(copy_events, paste_events, Len(copy_events), max_gap_minutes)

ChainWindowMinutes == 10

----------------------------------------------------------------------------
(* Calls on a WorkflowAnalysisExperiment                                   *)

WfFresh ==
    /\ program = "experiment_4"
    /\ pc = "loaded"
    /\ sort_order = <<>>
    /\ call = ""
    /\ df = <<>>
    /\ SegIdle
    /\ WfIdle
    /\ ClsIdle

\* a file of workflow events, in timestamp order
InitWF ==
    /\ csv \in { c \in SeqsUpTo(WfRows, MaxWfLen) : IsSortedByTime(c) }
    /\ WfFresh
    /\ args = DefaultArgs

\* a file of clipboard events, in timestamp order
InitClip ==
    /\ csv \in { c \in SeqsUpTo(ClipRows, MaxClipLen) : IsSortedByTime(c) }
    /\ WfFresh
    /\ args = DefaultArgs

\* __init__: read_csv and prepare_data
PrepareData ==
    /\ program = "experiment_4"
    /\ pc = "loaded"
    /\ \E p \in SortOrders(csv) :
          /\ sort_order \in {<<>>, p}
          /\ sort_order' = p
          /\ df' = FrameWf(csv, p)
          /\ workflow_events' = RelevantRows(FrameWf(csv, p), Len(csv))
    /\ pc' = "ready"
    /\ UNCHANGED <<csv, call, segVars, scanVars, workflow_patterns, clipboard_chains,
                   clipboard_analysis, results, outcomes, clsVars, runVars>>

\* detect_cross_tab_workflows(min_length, max_gap_seconds), up to the loop
CallDetect ==
    /\ pc = "ready"
    /\ call = ""
    /\ \E ml \in MinLengths, mg \in MaxGaps :
          /\ min_length' = ml
          /\ max_gap_seconds' = mg
    /\ workflows' = <<>>
    /\ current_sequence' = <<>>
    /\ last_timestamp' = <<>>
    /\ tab_switches' = 0
    /\ wpos' = 1
    /\ pc' = "scan"
    /\ UNCHANGED <<csv, sort_order, call, df, segVars, workflow_events, workflow_patterns,
                   clipboard_chains, clipboard_analysis, results, outcomes, clsVars, runVars>>

\* one iteration of: for _, event in self.workflow_events.iterrows()
DetectStep ==
    /\ pc = "scan"
    /\ wpos <= Len(workflow_events)
    /\ LET event == workflow_events[wpos]
           item == SequenceItem(event)
       IN  /\ IF Continues(last_timestamp, event.timestamp, max_gap_seconds)
              THEN /\ current_sequence' = Append(current_sequence, item)
                   /\ tab_switches' =
                          IF /\ Len(current_sequence) >= 1
                             /\ TabIdDiffers(item.tab_id,
                                             current_sequence[Len(current_sequence)].tab_id)
                          THEN tab_switches + 1
                          ELSE tab_switches
                   /\ UNCHANGED workflows
              ELSE /\ workflows' = Flush(workflows, current_sequence, tab_switches, min_length)
                   /\ current_sequence' = <<item>>
                   /\ tab_switches' = 0
           /\ last_timestamp' = <<event.timestamp>>
    /\ wpos' = wpos + 1
    /\ UNCHANGED <<pc, csv, sort_order, call, df, segVars, workflow_events, min_length, max_gap_seconds,
                   workflow_patterns, clipboard_chains, clipboard_analysis, results,
                   outcomes, clsVars, runVars>>

\* the flush after the loop, and the return
DetectFinish ==
    /\ pc = "scan"
    /\ wpos > Len(workflow_events)
    /\ workflows' = Flush(workflows, current_sequence, tab_switches, min_length)
    /\ workflow_patterns' = Flush(workflows, current_sequence, tab_switches, min_length)
    /\ pc' = "detected"
    /\ UNCHANGED <<csv, sort_order, call, df, segVars, workflow_events, min_length, max_gap_seconds, wpos,
                   current_sequence, last_timestamp, tab_switches, clipboard_chains,
                   clipboard_analysis, results, outcomes, clsVars, runVars>>

\* the stats dict of analyze_clipboard_enhancement (the text length statistics
\* and the mean chain duration, which are floats, are left out)
ClipboardStats(clipboard_events, chains) ==
    LET copies == WithOperation(clipboard_events, "copy", Len(clipboard_events))
    IN  [total_operations |-> Len(clipboard_events),
         copy_operations |-> Len(copies),
         paste_operations |->
             Len(WithOperation(clipboard_events, "paste", Len(clipboard_events))),
         cut_operations |->
             Len(WithOperation(clipboard_events, "cut", Len(clipboard_events))),
         clipboard_chains |-> Len(chains)]
        @@ (IF Len(copies) > 0
            THEN [cross_domain_copies |->
                      Cardinality({ copies[i].domain : i \in 1..Len(copies) })]
            ELSE <<>>)

\* analyze_clipboard_enhancement
AnalyzeClipboardEnhancement ==
    /\ pc = "ready"
    /\ call = ""
    /\ LET clipboard_events == ClipboardEvents(df, Len(df))
           chains == detect_clipboard_chains(clipboard_events, ChainWindowMinutes)
       IN  IF Len(clipboard_events) = 0
           THEN UNCHANGED <<clipboard_chains, clipboard_analysis>>
           ELSE /\ clipboard_chains' = chains
                /\ clipboard_analysis' = ClipboardStats(clipboard_events, chains)
    /\ pc' = "clipboard_analyzed"
    /\ UNCHANGED <<csv, sort_order, call, df, segVars, workflow_events, scanVars,
                   workflow_patterns, results, outcomes, clsVars, runVars>>

NextWF == PrepareData \/ CallDetect \/ DetectStep \/ DetectFinish

SpecWF == InitWF /\ [][NextWF]_vars

\* files of clicks whose tab_id cell may be empty or hold the id 0
MaxTabLen == 3
TabTimes == {0, 5000, 10000, 41000}
TabRows ==
    { MkEvent(t, <<"ui", "click">>, tab, "click", NoValue, "x") :
        t \in TabTimes, tab \in Tabs \cup {0, AbsentTab} }

InitTabs ==
    /\ csv \in { c \in SeqsUpTo(TabRows, MaxTabLen) : IsSortedByTime(c) }
    /\ WfFresh
    /\ args = DefaultArgs

SpecTabs == InitTabs /\ [][NextWF]_vars

\* either script on a short file or on a file without rows (the header only)
MaxAnyLen == 2

InitAny ==
    \/ /\ csv \in SeqsUpTo(Rows, MaxAnyLen) \cup {<<>>}
       /\ SegFresh
    \/ /\ csv \in { c \in SeqsUpTo(WfRows \cup ClipRows, MaxAnyLen) : IsSortedByTime(c) }
                    \cup {<<>>}
       /\ WfFresh
       /\ args = DefaultArgs

NextClip == PrepareData \/ AnalyzeClipboardEnhancement

SpecClip == InitClip /\ [][NextClip]_vars

NextAny == NextSeg \/ NextWF \/ AnalyzeClipboardEnhancement

SpecAny == InitAny /\ [][NextAny]_vars

----------------------------------------------------------------------------
(* WorkflowAnalysisExperiment.analyze_workflow_efficiency                  *)
(* Durations are kept in milliseconds.  The three means (floats) are left  *)
(* out of the dict; the quotient repeatability_score is kept as the pair   *)
(* <<numerator, denominator>>.                                             *)

MaxWorkflows == 5

\* the workflows of the lists handed to the analysis: two events on two tabs
EffSubtypes == {"click", "scroll"}
EffWorkflow(s1, s2, t) ==
    Workflow(<<SequenceItem(MkEvent(0, <<"ui", "click">>, 1, s1, NoValue, "x")),
               SequenceItem(MkEvent(t, <<"ui", "click">>, 2, s2, NoValue, "x"))>>, 1)
EffWorkflows ==
    { EffWorkflow(s1, s2, 10000) : s1 \in EffSubtypes, s2 \in EffSubtypes \cup {NoValue} }
    \cup { EffWorkflow("click", "click", 20000) }

\* the dict {}
EmptyDict == [k \in {} |-> 0]

RECURSIVE SumLengths(_, _)
SumLengths(wfs, k) == IF k = 0 THEN 0 ELSE SumLengths(wfs, k - 1) + wfs[k].length

RECURSIVE SumDurations(_, _)
SumDurations(wfs, k) == IF k = 0 THEN 0 ELSE SumDurations(wfs, k - 1) + wfs[k].duration

\* the factor 0.7 of time_saving_potential, in tenths
ReductionFactorTenths == 7

\* '->'.join([s['action_subtype'] for s in workflow['sequence']]) raises
\* TypeError when an item is not a str: an absent action_subtype is a float NaN
JoinRaises(seq) == \E i \in 1..Len(seq) : seq[i].action_subtype = NoValue

\* a signature that keeps the first action_subtype only
SignatureOfFirst(seq, k) == IF k = 0 THEN "" ELSE seq[1].action_subtype

RECURSIVE Signature(_, _)
Signature(seq, k) ==
    IF k = 0 THEN ""
    ELSE IF k = 1 THEN seq[1].action_subtype
    ELSE Signature(seq, k - 1) \o "->" \o seq[k].action_subtype

\* pattern_signatures, in workflow order
PatternSignatures(wfs) ==
    [i \in 1..Len(wfs) |-> Signature(wfs[i].sequence, Len(wfs[i].sequence))]

\* Counter(pattern_signatures)
PatternFrequency(sigs) ==
    [g \in Range(sigs) |-> Cardinality({ i \in 1..Len(sigs) : sigs[i] = g })]

\* pattern_frequency.most_common(1)[0]: the highest count, the signature seen
\* first among those that have it
MostCommon(sigs) ==
    LET freq == PatternFrequency(sigs)
        top == CHOOSE i \in 1..Len(sigs) :
                   /\ \A j \in 1..Len(sigs) : freq[sigs[j]] <= freq[sigs[i]]
                   /\ \A j \in 1..(i - 1) : freq[sigs[j]] < freq[sigs[i]]
    IN  <<sigs[top], freq[sigs[top]]>>

\* a selection that also takes the signatures that occur once
RepeatedPatternsInclusive(pattern_frequency) ==
    { g \in DOMAIN pattern_frequency : pattern_frequency[g] >= 1 }

\* {k: v for k, v in pattern_frequency.items() if v > 1}
RepeatedPatterns(pattern_frequency) ==
    { g \in DOMAIN pattern_frequency : pattern_frequency[g] > 1 }

\* the dict returned when workflow_patterns is not empty and no join raises
EfficiencyAnalysis(wfs) ==
    LET sigs == PatternSignatures(wfs)
        pattern_frequency == PatternFrequency(sigs)
        repeated_patterns == RepeatedPatterns(pattern_frequency)
    IN  [total_workflows |-> Len(wfs),
         automation_potential_events |-> SumLengths(wfs, Len(wfs)) - Len(wfs),
         time_saving_potential |->
             (SumDurations(wfs, Len(wfs)) * ReductionFactorTenths) \div 10,
         unique_patterns |-> Cardinality(DOMAIN pattern_frequency),
         repeated_patterns |-> Cardinality(repeated_patterns),
         most_common_pattern |-> MostCommon(sigs),
         repeatability_score |->
             <<Cardinality(repeated_patterns), Cardinality(DOMAIN pattern_frequency)>>]

\* a list of detected workflows, handed to the analysis
InitEff ==
    /\ program = "experiment_4"
    /\ args = DefaultArgs
    /\ pc = "detected"
    /\ csv = <<>>
    /\ sort_order = <<>>
    /\ call = ""
    /\ df = <<>>
    /\ SegIdle
    /\ ClsIdle
    /\ workflow_events = <<>>
    /\ min_length = DefaultMinLength
    /\ max_gap_seconds = DefaultMaxGapSeconds
    /\ wpos = 0
    /\ current_sequence = <<>>
    /\ last_timestamp = <<>>
    /\ tab_switches = 0
    /\ workflows = <<>>
    /\ workflow_patterns \in SeqsUpTo(EffWorkflows, MaxWorkflows) \cup {<<>>}
    /\ clipboard_chains = <<>>
    /\ clipboard_analysis = <<>>
    /\ results = <<>>
    /\ outcomes = <<>>
    /\ efficiency_analysis = <<>>
    /\ task_stats = <<>>

\* lists of workflows of two or three events whose action_subtype may contain
\* the text "->"
MaxSigWorkflows == 2
SigSubtypes == {"a", "b", "a->b"}
WithSeparator == {"a->b"}
SigItem(j, sub) ==
    SequenceItem(MkEvent(j * 1000, <<"ui", "click">>, j, sub, NoValue, "x"))
SigWorkflows ==
    { Workflow([j \in 1..Len(subs) |-> SigItem(j, subs[j])], Len(subs) - 1) :
        subs \in [1..2 -> SigSubtypes] \cup [1..3 -> SigSubtypes] }

InitSig ==
    /\ program = "experiment_4"
    /\ args = DefaultArgs
    /\ pc = "detected"
    /\ csv = <<>>
    /\ sort_order = <<>>
    /\ call = ""
    /\ df = <<>>
    /\ SegIdle
    /\ ClsIdle
    /\ workflow_events = <<>>
    /\ min_length = DefaultMinLength
    /\ max_gap_seconds = DefaultMaxGapSeconds
    /\ wpos = 0
    /\ current_sequence = <<>>
    /\ last_timestamp = <<>>
    /\ tab_switches = 0
    /\ workflows = <<>>
    /\ workflow_patterns \in SeqsUpTo(SigWorkflows, MaxSigWorkflows)
    /\ clipboard_chains = <<>>
    /\ clipboard_analysis = <<>>
    /\ results = <<>>
    /\ outcomes = <<>>
    /\ efficiency_analysis = <<>>
    /\ task_stats = <<>>

\* analyze_workflow_efficiency
AnalyzeWorkflowEfficiency ==
    /\ pc = "detected"
    /\ call = ""
    /\ IF Len(workflow_patterns) = 0
       THEN /\ efficiency_analysis' = EmptyDict
            /\ pc' = "efficiency_analyzed"
       ELSE IF \E i \in 1..Len(workflow_patterns) : JoinRaises(workflow_patterns[i].sequence)
       THEN /\ pc' = "raised"
            /\ UNCHANGED efficiency_analysis
       ELSE /\ efficiency_analysis' = EfficiencyAnalysis(workflow_patterns)
            /\ pc' = "efficiency_analyzed"
    /\ UNCHANGED <<program, args, task_stats, csv, sort_order, call, df, segVars, wfVars, clsVars>>

NextEff == AnalyzeWorkflowEfficiency

SpecEff == InitEff /\ [][NextEff]_vars

SpecSig == InitSig /\ [][NextEff]_vars

----------------------------------------------------------------------------
(* main() and WorkflowAnalysisExperiment.run_analysis                      *)
(* run_analysis calls self.discover_high_order_patterns(), a method that   *)
(* no file of the repository defines: the attribute lookup raises          *)
(* AttributeError after the clipboard analysis, main() catches it and      *)
(* returns None.  The statements of run_analysis after that call (the      *)
(* efficiency analysis and the assignment of self.results) are never       *)
(* executed and have no action here.                                       *)

MaxRunLen == 3
Runs == 2

RunTimes == {0, 30000}
RunRows ==
    { MkEvent(t, <<"ui", "click">>, tab, "click", NoValue, "x") : t \in RunTimes, tab \in Tabs }
    \cup
    { MkEvent(t, <<"ui", "clipboard">>, 1, op, op, "x") : t \in RunTimes, op \in {"copy", "paste"} }

InitRun ==
    /\ csv \in { c \in SeqsUpTo(RunRows, MaxRunLen) : IsSortedByTime(c) }
    /\ WfFresh
    /\ args \in Args

\* run_analysis, step 1: self.detect_cross_tab_workflows() with its defaults
RunAnalysisDetect ==
    /\ pc = "ready"
    /\ call = ""
    /\ call' = "run_analysis"
    /\ min_length' = DefaultMinLength
    /\ max_gap_seconds' = DefaultMaxGapSeconds
    /\ workflows' = <<>>
    /\ current_sequence' = <<>>
    /\ last_timestamp' = <<>>
    /\ tab_switches' = 0
    /\ wpos' = 1
    /\ pc' = "scan"
    /\ UNCHANGED <<csv, sort_order, df, segVars, workflow_events, workflow_patterns,
                   clipboard_chains, clipboard_analysis, results, outcomes, clsVars, runVars>>

\* run_analysis, step 2: self.analyze_clipboard_enhancement()
RunAnalysisClipboard ==
    /\ pc = "detected"
    /\ call = "run_analysis"
    /\ LET clipboard_events == ClipboardEvents(df, Len(df))
           chains == detect_clipboard_chains(clipboard_events, ChainWindowMinutes)
       IN  IF Len(clipboard_events) = 0
           THEN UNCHANGED <<clipboard_chains, clipboard_analysis>>
           ELSE /\ clipboard_chains' = chains
                /\ clipboard_analysis' = ClipboardStats(clipboard_events, chains)
    /\ pc' = "high_order_patterns"
    /\ UNCHANGED <<csv, sort_order, call, df, segVars, workflow_events, scanVars,
                   workflow_patterns, results, outcomes, clsVars, runVars>>

\* run_analysis, step 2.5: self.discover_high_order_patterns raises AttributeError
RunAnalysisRaises ==
    /\ pc = "high_order_patterns"
    /\ call = "run_analysis"
    /\ pc' = "raised"
    /\ call' = ""
    /\ UNCHANGED <<csv, sort_order, df, segVars, wfVars, clsVars, runVars>>

\* main(): except Exception, return None
MainExcept ==
    /\ pc = "raised"
    /\ outcomes' = Append(outcomes,
                          [returned |-> "None",
                           results |-> results,
                           workflow_patterns |-> workflow_patterns,
                           clipboard_chains |-> clipboard_chains])
    /\ pc' = "exited"
    /\ UNCHANGED <<csv, sort_order, call, df, segVars, workflow_events, scanVars,
                   workflow_patterns, clipboard_chains, clipboard_analysis, results,
                   clsVars, runVars>>

\* the script is started again on the same file: a new process, a new object
MainAgain ==
    /\ pc = "exited"
    /\ Len(outcomes) < Runs
    /\ pc' = "loaded"
    /\ df' = <<>>
    /\ workflow_events' = <<>>
    /\ min_length' = 0
    /\ max_gap_seconds' = 0
    /\ wpos' = 0
    /\ current_sequence' = <<>>
    /\ last_timestamp' = <<>>
    /\ tab_switches' = 0
    /\ workflows' = <<>>
    /\ workflow_patterns' = <<>>
    /\ clipboard_chains' = <<>>
    /\ clipboard_analysis' = <<>>
    /\ results' = <<>>
    /\ UNCHANGED <<csv, sort_order, call, segVars, outcomes, clsVars, runVars>>

NextRun ==
    \/ PrepareData \/ RunAnalysisDetect \/ DetectStep \/ DetectFinish
    \/ RunAnalysisClipboard \/ RunAnalysisRaises \/ MainExcept \/ MainAgain

SpecRun == InitRun /\ [][NextRun]_vars

----------------------------------------------------------------------------
(* UserStudyAnalyzer.classify_task_type                                    *)

MaxClicks == 6
MaxInputs == 2
MaxSubmits == 1
MaxOthers == 1
MaxUrls == 4

Digits == <<"1", "2", "3", "4", "5", "6", "7", "8", "9">>

\* a task frame with nc click rows, ni text_input rows, nf form_submit rows and
\* no other rows, in that order, on nu different urls (no url at all for nu = 0)
TaskFrame(nc, ni, nf, no, nu) ==
    [j \in 1..(nc + ni + nf + no) |->
        MkRow(0,
              IF nu = 0 THEN NaN ELSE <<"u", Digits[IF j <= nu THEN j ELSE nu]>>,
              IF j <= nc THEN <<"user_action_click", "click">>
              ELSE IF j <= nc + ni THEN <<"user_action_text_input", "text_input">>
              ELSE IF j <= nc + ni + nf THEN <<"user_action_form_submit", "submit">>
              ELSE <<"user_action_scroll", "scroll">>)]

TaskFrames ==
    { TaskFrame(nc, ni, nf, no, nu) :
        nc \in 0..MaxClicks, ni \in 0..MaxInputs, nf \in 0..MaxSubmits,
        no \in 0..MaxOthers, nu \in 0..MaxUrls }

\* len(task_data[task_data['action_subtype'] == value])
CountSubtype(d, value) ==
    Cardinality({ k \in 1..Len(d) : d[k].action_subtype = value })

\* len(task_data[task_data['event_type'] == value])
CountEventType(d, value) ==
    Cardinality({ k \in 1..Len(d) : d[k].event_type = value })

\* task_data['url'].nunique(): the different urls, NaN not counted
NUniqueUrls(d) == Cardinality({ d[k].url : k \in 1..Len(d) } \ {NaN})

\* a classification that tests the input rule before the form rule
classify_task_type_swapped(d) ==
    LET click_count == CountSubtype(d, "click")
        input_count == CountSubtype(d, "text_input")
        form_submit_count == CountEventType(d, "user_action_form_submit")
        unique_urls == NUniqueUrls(d)
    IN  IF input_count > click_count THEN "data_entry"
        ELSE IF form_submit_count > 0 THEN "form_submission"
        ELSE IF unique_urls > 3 THEN "browsing_navigation"
        ELSE IF click_count > 5 /\ input_count = 0 THEN "pure_navigation"
        ELSE IF input_count > 0 /\ click_count > 0 THEN "search_and_select"
        ELSE "general_interaction"

classify_task_type(d) ==
    LET click_count == CountSubtype(d, "click")
        input_count == CountSubtype(d, "text_input")
        form_submit_count == CountEventType(d, "user_action_form_submit")
        unique_urls == NUniqueUrls(d)
    IN  IF form_submit_count > 0 THEN "form_submission"
        ELSE IF input_count > click_count THEN "data_entry"
        ELSE IF unique_urls > 3 THEN "browsing_navigation"
        ELSE IF click_count > 5 /\ input_count = 0 THEN "pure_navigation"
        ELSE IF input_count > 0 /\ click_count > 0 THEN "search_and_select"
        ELSE "general_interaction"

InitClassify ==
    /\ program = "experiment_3"
    /\ args = <<>>
    /\ pc = "task"
    /\ csv = <<>>
    /\ sort_order = <<>>
    /\ call = ""
    /\ df = <<>>
    /\ SegIdle
    /\ WfIdle
    /\ task_data \in TaskFrames
    /\ task_type = ""

\* task_type = self.classify_task_type(task_data)
ClassifyTask ==
    /\ pc = "task"
    /\ task_type' = classify_task_type(task_data)
    /\ pc' = "classified"
    /\ UNCHANGED <<csv, sort_order, call, df, segVars, wfVars, task_data, runVars>>

NextClassify == ClassifyTask

SpecClassify == InitClassify /\ [][NextClassify]_vars

----------------------------------------------------------------------------
(* Properties of the task segmentation                                     *)

Done == pc = "done"

\* the file is in timestamp order
InputSorted ==
    \A i \in 1..(Len(csv) - 1) : csv[i].timestamp <= csv[i + 1].timestamp

\* the file is in timestamp order and no two rows share a timestamp
InputStrictlySorted ==
    \A i \in 1..(Len(csv) - 1) : csv[i].timestamp < csv[i + 1].timestamp

\* task_id of the event at index i of the log
TaskOf(i) == df[Pos(df, i)].task_id

\* C1: after segment_tasks on a timestamp-sorted log every event carries a
\* task_id >= 0 and the events of one task_id form one contiguous interval of
\* log indices.
C1_Partition ==
    (Done /\ InputSorted) =>
        /\ \A i \in 0..(Len(csv) - 1) : TaskOf(i) >= 0
        /\ \A i, j, k \in 0..(Len(csv) - 1) :
              (i < j /\ j < k /\ TaskOf(i) = TaskOf(k)) => TaskOf(j) = TaskOf(i)

C7_SequentialIds ==
    (Done /\ InputSorted) =>
        /\ TaskOf(0) = 0
        /\ \A i \in 1..(Len(csv) - 1) :
              TaskOf(i) = TaskOf(i - 1) \/ TaskOf(i) = TaskOf(i - 1) + 1

\* C8: a form submission is the last event of its task: the event after it
\* (when there is one) carries another task id.
C8_SubmitEndsTask ==
    (Done /\ InputStrictlySorted) =>
        \A i \in 0..(Len(csv) - 2) :
            csv[i + 1].event_type = "user_action_form_submit"
                => TaskOf(i + 1) # TaskOf(i)

\* what holds of the code instead: on a log without equal timestamps the
\* partition and the id sequence are as C1 and C7 say
StrictLogPartition ==
    (Done /\ InputStrictlySorted) =>
        /\ \A i \in 0..(Len(csv) - 1) : TaskOf(i) >= 0
        /\ TaskOf(0) = 0
        /\ \A i \in 1..(Len(csv) - 1) :
              TaskOf(i) = TaskOf(i - 1) \/ TaskOf(i) = TaskOf(i - 1) + 1

----------------------------------------------------------------------------
(* Properties of the cross-tab workflow scan                               *)

\* the number of adjacent pairs of seq with different tab ids
SwitchesIn(seq) ==
    Cardinality({ i \in 1..(Len(seq) - 1) : seq[i].tab_id # seq[i + 1].tab_id })

ValidWorkflow(w) ==
    /\ w.length = Len(w.sequence)
    /\ w.length >= min_length
    /\ w.tab_switches >= 1
    /\ SwitchesIn(w.sequence) >= 1

\* C2: every workflow emitted so far by a flush in the scan, and every
\* workflow returned, has length >= min_length and at least one tab switch.
C2_WorkflowValidity ==
    /\ \A i \in 1..Len(workflows) : ValidWorkflow(workflows[i])
    /\ \A i \in 1..Len(workflow_patterns) : ValidWorkflow(workflow_patterns[i])

\* a finished scan that returned one workflow emitted in the middle of the scan
\* and one emitted by the last flush, and dropped nothing
C2_Witness ==
    /\ pc = "detected"
    /\ Len(workflow_patterns) = 2
    /\ workflow_patterns[1].length + workflow_patterns[2].length = Len(workflow_events)

GapMs(a, b) == workflow_events[b].timestamp - workflow_events[a].timestamp

\* the workflow w is the run workflow_events[a..b]
IsRun(w, a, b) ==
    /\ b - a + 1 = Len(w.sequence)
    /\ \A i \in 1..Len(w.sequence) :
          /\ w.sequence[i].timestamp = workflow_events[a + i - 1].timestamp
          /\ w.sequence[i].tab_id = workflow_events[a + i - 1].tab_id
          /\ w.sequence[i].event_type = workflow_events[a + i - 1].event_type

\* the run a..b is gap-bounded and cannot be extended on either side
MaximalRun(a, b) ==
    /\ \A i \in a..(b - 1) : GapMs(i, i + 1) <= max_gap_seconds * 1000
    /\ a > 1 => GapMs(a - 1, a) > max_gap_seconds * 1000
    /\ b < Len(workflow_events) => GapMs(b, b + 1) > max_gap_seconds * 1000

ReturnedRunsMaximal ==
    pc = "detected" =>
        \A i \in 1..Len(workflow_patterns) :
            \E a, b \in 1..Len(workflow_events) :
                a <= b /\ IsRun(workflow_patterns[i], a, b) /\ MaximalRun(a, b)

\* a step of the scan appends the event exactly when the sequence is empty or
\* the event is at most max_gap after the event before it, and restarts the
\* sequence with the event alone otherwise
ScanStepRule ==
    (pc = "scan" /\ wpos' = wpos + 1) =>
        LET item == SequenceItem(workflow_events[wpos])
            near == \/ current_sequence = <<>>
                    \/ GapMs(wpos - 1, wpos) <= max_gap_seconds * 1000
        IN  /\ near => current_sequence' = Append(current_sequence, item)
            /\ ~near => current_sequence' = <<item>>

\* C10: the scan continues the sequence exactly when it is empty or the gap is
\* at most max_gap, so every returned workflow is a maximal gap-bounded run of
\* the workflow-relevant events.
C10_MaximalGapBoundedRuns == [][ScanStepRule]_vars /\ []ReturnedRunsMaximal

\* a returned workflow that contains a gap of exactly max_gap and is cut off
\* from a later event by a longer gap
C10_Witness ==
    /\ pc = "detected"
    /\ \E i \in 1..Len(workflow_patterns) :
          LET w == workflow_patterns[i]
          IN  /\ \E j \in 1..(w.length - 1) :
                    w.sequence[j + 1].timestamp - w.sequence[j].timestamp
                        = max_gap_seconds * 1000
              /\ workflow_events[Len(workflow_events)].timestamp
                    > w.sequence[w.length].timestamp + max_gap_seconds * 1000

\* every event of the file has a tab id
AllTabIdsPresent == \A i \in 1..Len(csv) : csv[i].tab_id # AbsentTab

\* C11: tab_switches of every emitted workflow is the number of adjacent pairs
\* of its own sequence whose tab ids differ; the events (0, tab 1), (5000, tab 2),
\* (10000, tab 1) with min_length 3 give one workflow of length 3 with 2 tab
\* switches and 2 unique tabs.
C11_TabSwitchCount ==
    /\ \A i \in 1..Len(workflows) :
          workflows[i].tab_switches = SwitchesIn(workflows[i].sequence)
    /\ (pc = "detected" /\ min_length = 3 /\ Len(csv) = 3
           /\ csv[1].timestamp = 0 /\ csv[1].tab_id = 1
           /\ csv[2].timestamp = 5000 /\ csv[2].tab_id = 2
           /\ csv[3].timestamp = 10000 /\ csv[3].tab_id = 1) =>
          /\ Len(workflow_patterns) = 1
          /\ workflow_patterns[1].length = 3
          /\ workflow_patterns[1].tab_switches = 2
          /\ workflow_patterns[1].unique_tabs = 2

\* what holds of the code instead: the count is right on files in which every
\* event has a tab id
TabSwitchCountWithTabIds == AllTabIdsPresent => C11_TabSwitchCount

\* a scan of a file with tab ids that discarded a first run and returned a later
\* run of two events, which is entered by a change of tab that is not counted
TabSwitchCounterRestarts ==
    /\ pc = "detected"
    /\ AllTabIdsPresent
    /\ Len(workflow_patterns) = 1
    /\ Len(workflow_events) = 3
    /\ workflow_patterns[1].length = 2
    /\ workflow_patterns[1].tab_switches = 1
    /\ workflow_events[1].tab_id # workflow_events[2].tab_id

----------------------------------------------------------------------------
(* Properties of the clipboard chains                                      *)

\* C3: every chain has 0 <= duration <= 10 minutes, the duration being the
\* paste time minus the copy time.
C3_ChainWindowBound ==
    \A i \in 1..Len(clipboard_chains) :
        /\ clipboard_chains[i].duration
              = clipboard_chains[i].paste_time - clipboard_chains[i].copy_time
        /\ 0 <= clipboard_chains[i].duration
        /\ clipboard_chains[i].duration <= 600000

\* a chain whose paste lies exactly at the end of the window
C3_Witness ==
    \E i \in 1..Len(clipboard_chains) : clipboard_chains[i].duration = 600000

\* the pairs (copy row, paste row) of the frame whose paste lies in the window
QualifyingPairs ==
    { pr \in (1..Len(df)) \X (1..Len(df)) :
        /\ df[pr[1]].clipboard_operation = "copy"
        /\ df[pr[2]].clipboard_operation = "paste"
        /\ df[pr[1]].timestamp < df[pr[2]].timestamp
        /\ df[pr[2]].timestamp <= df[pr[1]].timestamp + 600000 }

ChainOfPair(ch, pr) ==
    /\ ch.copy_time = df[pr[1]].timestamp
    /\ ch.paste_time = df[pr[2]].timestamp
    /\ ch.copy_domain = df[pr[1]].domain
    /\ ch.paste_domain = df[pr[2]].domain
    /\ ch.cross_domain = (df[pr[1]].domain # df[pr[2]].domain)

ScenarioB ==
    << MkEvent(0, <<"ui", "clipboard">>, 1, "copy", "copy", "x"),
       MkEvent(60000, <<"ui", "clipboard">>, 1, "paste", "paste", "y"),
       MkEvent(700000, <<"ui", "clipboard">>, 1, "paste", "paste", "x") >>

\* C9: the chains are exactly the pairs of a copy and a later paste at most
\* 10 minutes after it, one chain per pair; cut events take no part; the log
\* of scenario B gives the single chain of the paste at 60000, cross-domain.
C9_ChainsArePairs ==
    pc = "clipboard_analyzed" =>
        /\ Len(clipboard_chains) = Cardinality(QualifyingPairs)
        /\ \A pr \in QualifyingPairs :
              \E i \in 1..Len(clipboard_chains) : ChainOfPair(clipboard_chains[i], pr)
        /\ \A i \in 1..Len(clipboard_chains) :
              \E pr \in QualifyingPairs : ChainOfPair(clipboard_chains[i], pr)
        /\ csv = ScenarioB =>
              /\ Len(clipboard_chains) = 1
              /\ clipboard_chains[1].paste_time = 60000
              /\ clipboard_chains[1].cross_domain

\* one paste paired with two copies: the paste is not used up by the first
C9_Witness ==
    /\ pc = "clipboard_analyzed"
    /\ Len(clipboard_chains) = 2
    /\ clipboard_chains[1].paste_time = clipboard_chains[2].paste_time
    /\ clipboard_chains[1].copy_time # clipboard_chains[2].copy_time

\* the log of scenario B has been analysed
ScenarioBReached == pc = "clipboard_analyzed" /\ csv = ScenarioB

----------------------------------------------------------------------------
(* Properties of the task classification                                   *)

\* the rows of d, among the first k, whose action_subtype is sub
RECURSIVE SubtypeCount(_, _, _)
SubtypeCount(d, sub, k) ==
    IF k = 0 THEN 0
    ELSE SubtypeCount(d, sub, k - 1) + (IF d[k].action_subtype = sub THEN 1 ELSE 0)

RECURSIVE SubmitCount(_, _)
SubmitCount(d, k) ==
    IF k = 0 THEN 0
    ELSE SubmitCount(d, k - 1)
         + (IF d[k].event_type = "user_action_form_submit" THEN 1 ELSE 0)

\* the number of rows whose url is defined and occurs in no earlier row
RECURSIVE FirstUrlCount(_, _)
FirstUrlCount(d, k) ==
    IF k = 0 THEN 0
    ELSE FirstUrlCount(d, k - 1)
         + (IF d[k].url # NaN /\ \A j \in 1..(k - 1) : d[j].url # d[k].url
            THEN 1 ELSE 0)

RuleLabels ==
    << "form_submission", "data_entry", "browsing_navigation", "pure_navigation",
       "search_and_select", "general_interaction" >>

\* the six rules of the claim, in their order, on the counts of d
RuleHolds(d) ==
    LET clickCount == SubtypeCount(d, "click", Len(d))
        inputCount == SubtypeCount(d, "text_input", Len(d))
        formSubmitCount == SubmitCount(d, Len(d))
        uniqueUrlCount == FirstUrlCount(d, Len(d))
    IN  << formSubmitCount > 0,
           inputCount > clickCount,
           uniqueUrlCount > 3,
           clickCount > 5 /\ inputCount = 0,
           inputCount > 0 /\ clickCount > 0,
           TRUE >>

\* C5: the label returned is the label of the first of the six rules that
\* holds; a task whose counts are all 0 is general_interaction.
C5_FirstMatchWins ==
    pc = "classified" =>
        /\ \E j \in 1..6 :
              /\ RuleHolds(task_data)[j]
              /\ \A k \in 1..(j - 1) : ~RuleHolds(task_data)[k]
              /\ task_type = RuleLabels[j]
        /\ (/\ SubtypeCount(task_data, "click", Len(task_data)) = 0
            /\ SubtypeCount(task_data, "text_input", Len(task_data)) = 0
            /\ SubmitCount(task_data, Len(task_data)) = 0
            /\ FirstUrlCount(task_data, Len(task_data)) = 0)
              => task_type = "general_interaction"

\* a classified task in which the first rule holds together with a later one
C5_Witness ==
    /\ pc = "classified"
    /\ RuleHolds(task_data)[1]
    /\ RuleHolds(task_data)[2]
    /\ task_type = "form_submission"

----------------------------------------------------------------------------
(* Properties of the full analysis                                         *)

\* C4: two runs of the full analysis on the same file leave the same output:
\* each stores a result record, and the records and the workflows agree.
C4_SameOutputTwice ==
    Len(outcomes) = 2 =>
        /\ outcomes[1].results # <<>>
        /\ outcomes[2].results # <<>>
        /\ outcomes[1] = outcomes[2]

\* what the two runs do agree on: the workflows and chains each one computed
\* before it failed
RunsAgreeBeforeFailure ==
    Len(outcomes) = 2 =>
        /\ outcomes[1].workflow_patterns = outcomes[2].workflow_patterns
        /\ outcomes[1].clipboard_chains = outcomes[2].clipboard_chains

----------------------------------------------------------------------------
(* Properties of analyze_workflow_efficiency                               *)

\* the signatures of the analysed workflows
SignaturesOf(wfs) == Range(PatternSignatures(wfs))

\* the number of workflows with signature g
Occurrences(wfs, g) ==
    Cardinality({ i \in 1..Len(wfs) : PatternSignatures(wfs)[i] = g })

\* C12: for a non-empty list of workflows unique_patterns is the number of
\* distinct signatures, repeated_patterns the number of signatures that occur
\* more than once and repeatability_score their quotient, so
\* 0 <= repeated <= unique <= number of workflows and the score is in [0, 1];
\* three workflows with one signature and two with signatures of their own give
\* 3, 1 and 1/3.
C12_Repeatability ==
    (pc = "efficiency_analyzed" /\ Len(workflow_patterns) > 0) =>
        LET e == efficiency_analysis
            wfs == workflow_patterns
        IN  /\ e.unique_patterns = Cardinality(SignaturesOf(wfs))
            /\ e.repeated_patterns =
                   Cardinality({ g \in SignaturesOf(wfs) : Occurrences(wfs, g) > 1 })
            /\ e.repeatability_score = <<e.repeated_patterns, e.unique_patterns>>
            /\ 0 <= e.repeated_patterns
            /\ e.repeated_patterns <= e.unique_patterns
            /\ e.unique_patterns <= Len(wfs)
            /\ e.unique_patterns > 0
            /\ (/\ Len(wfs) = 5
                /\ Cardinality(SignaturesOf(wfs)) = 3
                /\ \E g \in SignaturesOf(wfs) : Occurrences(wfs, g) = 3) =>
                   /\ e.unique_patterns = 3
                   /\ e.repeated_patterns = 1
                   /\ e.repeatability_score = <<1, 3>>

\* the analysis of five workflows, three of them with one signature and two
\* with signatures of their own
C12_Witness ==
    /\ pc = "efficiency_analyzed"
    /\ Len(workflow_patterns) = 5
    /\ Cardinality(SignaturesOf(workflow_patterns)) = 3
    /\ \E g \in SignaturesOf(workflow_patterns) : Occurrences(workflow_patterns, g) = 3
    /\ efficiency_analysis.repeatability_score = <<1, 3>>

\* C13: when no workflow was detected the analysis still returns its metrics:
\* repeatability_score, unique_patterns, repeated_patterns and
\* automation_potential_events are present and 0.
C13_EmptyMetrics ==
    (pc = "efficiency_analyzed" /\ Len(workflow_patterns) = 0) =>
        /\ {"repeatability_score", "unique_patterns", "repeated_patterns",
            "automation_potential_events"} \subseteq DOMAIN efficiency_analysis
        /\ efficiency_analysis["repeatability_score"] = 0
        /\ efficiency_analysis["unique_patterns"] = 0
        /\ efficiency_analysis["repeated_patterns"] = 0
        /\ efficiency_analysis["automation_potential_events"] = 0

\* what holds of the code instead: without workflows the analysis returns the
\* empty dict
NoWorkflowsNoMetrics ==
    (pc = "efficiency_analyzed" /\ Len(workflow_patterns) = 0) =>
        DOMAIN efficiency_analysis = {}

\* reduction factors a configuration may ask for, in tenths: the default 0.7
\* and 0.5
ConfiguredFactorsTenths == {5, 7}

TotalDuration == SumDurations(workflow_patterns, Len(workflow_patterns))

\* C14: time_saving_potential is the sum of the workflow durations times the
\* configured automationReductionFactor: whatever factor the configuration
\* names, the result is the sum times that factor.
C14_FactorIsConfigured ==
    (pc = "efficiency_analyzed" /\ Len(workflow_patterns) > 0) =>
        \A f \in ConfiguredFactorsTenths :
            efficiency_analysis.time_saving_potential = (TotalDuration * f) \div 10

\* what holds of the code instead: the factor is always 0.7
FactorIsSevenTenths ==
    (pc = "efficiency_analyzed" /\ Len(workflow_patterns) > 0) =>
        efficiency_analysis.time_saving_potential * 10 = TotalDuration * 7

----------------------------------------------------------------------------
(* Properties of a run of main()                                           *)

\* the workflows of the run respect the options --min-length m and --max-gap g
RespectsArgs(w) ==
    /\ w.length >= args.min_length
    /\ \A i \in 1..(w.length - 1) :
          w.sequence[i + 1].timestamp - w.sequence[i].timestamp <= args.max_gap * 1000

\* C15: the detector of a full analysis run uses the configured minimum length
\* and maximum gap: every workflow of the run has length >= m and adjacent gaps
\* <= g.
C15_ConfiguredValuesUsed ==
    /\ (call = "run_analysis" /\ pc = "scan") =>
          /\ min_length = args.min_length
          /\ max_gap_seconds = args.max_gap
    /\ call = "run_analysis" =>
          \A i \in 1..Len(workflow_patterns) : RespectsArgs(workflow_patterns[i])

\* what holds of the code instead: the run uses the defaults 3 and 30
RunUsesDefaults ==
    (call = "run_analysis" /\ pc = "scan") =>
        /\ min_length = DefaultMinLength
        /\ max_gap_seconds = DefaultMaxGapSeconds

\* C16: a full analysis run never ends in an error before the result is stored:
\* it does not raise, and a finished run has stored a result record with the
\* workflow, clipboard and efficiency parts.
C16_RunStoresResult ==
    /\ pc # "raised"
    /\ \A i \in 1..Len(outcomes) :
          /\ outcomes[i].returned # "None"
          /\ {"workflow_patterns", "clipboard_enhancement", "efficiency_analysis"}
                \subseteq DOMAIN outcomes[i].results

\* what holds of the code instead: every run ends in main's except branch with
\* self.results still the empty dict
EveryRunFails ==
    \A i \in 1..Len(outcomes) :
        outcomes[i].returned = "None" /\ DOMAIN outcomes[i].results = {}

----------------------------------------------------------------------------
(* Properties on a file without rows                                       *)

\* C17: on a log with zero events no component reaches an error state and each
\* returns an empty result: no session, no task and no boundary, no workflow
\* and no clipboard chain.
C17_EmptyLog ==
    Len(csv) = 0 =>
        /\ pc # "raised"
        /\ Len(df) = 0
        /\ { df[k].session_id : k \in 1..Len(df) } = {}
        /\ pc \in {"assign", "done"} =>
              /\ task_boundaries = {}
              /\ { df[k].task_id : k \in 1..Len(df) } = {}
              /\ current_task_id = 0
        /\ pc \in {"ready", "scan", "detected", "clipboard_analyzed"} =>
              /\ Len(workflow_events) = 0
              /\ Len(workflows) = 0
              /\ Len(workflow_patterns) = 0
              /\ Len(clipboard_chains) = 0

\* the segmentation of a file without rows has finished
C17_Witness ==
    /\ Len(csv) = 0
    /\ program = "experiment_3"
    /\ pc = "done"

\* the workflow detection on a file without rows has returned
EmptyLogDetected ==
    /\ Len(csv) = 0
    /\ program = "experiment_4"
    /\ pc = "detected"

----------------------------------------------------------------------------
(* Properties of the ingestion                                             *)

\* the frame holds the rows in the order of the file
FrameInFileOrder == \A k \in 1..Len(df) : df[k].idx = k - 1

\* C18: a file whose timestamps are not in non-decreasing order is not repaired
\* silently: the boundary detection never runs on such a file, and never on a
\* frame whose row order differs from the order of the file.
C18_NoSilentRepair ==
    pc \in {"preprocessed", "assign", "done"} => (InputSorted /\ FrameInFileOrder)

\* what holds of the code instead: whatever the file order, the detection runs,
\* on a frame in timestamp order
DetectionRunsOnSortedFrame ==
    pc \in {"preprocessed", "assign", "done"} =>
        \A k \in 1..(Len(df) - 1) : df[k].timestamp <= df[k + 1].timestamp

----------------------------------------------------------------------------
(* Properties of the session ids                                           *)

\* session_id of the event at index i of the log
SessionOf(i) == df[Pos(df, i)].session_id

\* C19: on a timestamp-sorted log the first event has session_id 0, and the
\* session_id of every later event is that of the event before it, plus one
\* exactly when the gap between the two is strictly above 300 s.
C19_SessionIds ==
    (pc \in {"preprocessed", "assign", "done"} /\ InputSorted /\ Len(csv) > 0) =>
        /\ SessionOf(0) = 0
        /\ \A i \in 1..(Len(csv) - 1) :
              SessionOf(i) =
                  SessionOf(i - 1)
                      + (IF csv[i + 1].timestamp - csv[i].timestamp > 300000 THEN 1 ELSE 0)

\* a preprocessed log of three events: the gap of exactly 300 s stays inside
\* session 0, the gap of 301 s opens session 1
C19_Witness ==
    /\ pc = "done"
    /\ Len(csv) = 3
    /\ csv[1].timestamp = 0 /\ csv[2].timestamp = 300000 /\ csv[3].timestamp = 601000
    /\ SessionOf(0) = 0 /\ SessionOf(1) = 0 /\ SessionOf(2) = 1

----------------------------------------------------------------------------
(* Properties of absent optional fields                                    *)

\* C20: an absent action_subtype causes no error: for workflows with events
\* whose action_subtype is absent the efficiency analysis does not raise, and
\* its result counts a signature for every workflow.
C20_AbsentSubtypeNoError ==
    /\ pc # "raised"
    /\ (pc = "efficiency_analyzed" /\ Len(workflow_patterns) > 0) =>
          /\ efficiency_analysis.total_workflows = Len(workflow_patterns)
          /\ efficiency_analysis.unique_patterns >= 1

\* what holds of the code instead: the analysis raises exactly when some event
\* of some workflow has no action_subtype
RaisesOnAbsentSubtype ==
    pc \in {"raised", "efficiency_analyzed"} =>
        (pc = "raised" <=>
            \E i \in 1..Len(workflow_patterns) :
                \E j \in 1..Len(workflow_patterns[i].sequence) :
                    workflow_patterns[i].sequence[j].action_subtype = NoValue)

----------------------------------------------------------------------------
(* Properties of the behavioural boundary rules                            *)

Segmenting == pc \in {"preprocessed", "assign", "done"}

\* the log indices of the clipboard events whose operation is copy
CopyIndices ==
    { i \in 0..(Len(csv) - 1) :
        /\ csv[i + 1].event_type = "user_action_clipboard"
        /\ csv[i + 1].clipboard_operation = "copy" }

\* C21: the clipboard rule contributes index i exactly when event i is a
\* clipboard event whose operation is copy; pastes and cuts are no boundaries
\* of this rule.
C21_ClipboardCopyRule == Segmenting => ClipboardBoundaries(df) = CopyIndices

\* what holds of the code instead: the rule contributes every clipboard event
ClipboardRuleTakesAll ==
    Segmenting =>
        ClipboardBoundaries(df) =
            { i \in 0..(Len(csv) - 1) : csv[i + 1].event_type = "user_action_clipboard" }

\* in a timestamp-sorted log, index i holds the last click of a burst: a click
\* less than 2 s after the click before it, with no later click less than 2 s
\* after it
BurstEndsAt(i) ==
    /\ csv[i + 1].action_subtype = "click"
    /\ \E j \in 0..(i - 1) :
          /\ csv[j + 1].action_subtype = "click"
          /\ \A m \in (j + 1)..(i - 1) : csv[m + 1].action_subtype # "click"
          /\ csv[i + 1].timestamp - csv[j + 1].timestamp < 2000
    /\ \A j \in (i + 1)..(Len(csv) - 1) :
          (/\ csv[j + 1].action_subtype = "click"
           /\ \A m \in (i + 1)..(j - 1) : csv[m + 1].action_subtype # "click")
              => csv[j + 1].timestamp - csv[i + 1].timestamp >= 2000

\* C22: whenever a burst of clicks ends, the rapid-click rule emits the event
\* at the log index right after the burst's last click, whatever its type and
\* also when no click follows.
C22_RapidClickRule ==
    (Segmenting /\ InputStrictlySorted) =>
        \A i \in 0..(Len(csv) - 2) :
            BurstEndsAt(i) => (i + 1) \in RapidClickBoundaries(df)

\* what holds of the code instead: the rule emits the first click after the
\* burst, if there is one, and nothing else
RapidClickRuleTakesNextClick ==
    (Segmenting /\ InputStrictlySorted) =>
        RapidClickBoundaries(df) =
            { j \in 0..(Len(csv) - 1) :
                /\ csv[j + 1].action_subtype = "click"
                /\ \E i \in 0..(j - 1) :
                      /\ BurstEndsAt(i)
                      /\ \A m \in (i + 1)..(j - 1) : csv[m + 1].action_subtype # "click" }

----------------------------------------------------------------------------
(* Properties that relate tasks, sessions and urls                         *)

\* C23: on a timestamp-sorted log every index at which session_id increases is
\* a task boundary, and all events of one task carry the same session_id.
C23_TasksRefineSessions ==
    /\ (pc \in {"assign", "done"} /\ InputSorted) =>
          \A i \in 1..(Len(csv) - 1) :
              SessionOf(i) > SessionOf(i - 1) => i \in task_boundaries
    /\ (Done /\ InputSorted) =>
          \A i, j \in 0..(Len(csv) - 1) :
              TaskOf(i) = TaskOf(j) => SessionOf(i) = SessionOf(j)

\* what holds of the code instead: tasks refine sessions on a log without equal
\* timestamps
StrictLogTasksRefineSessions ==
    /\ (pc \in {"assign", "done"} /\ InputStrictlySorted) =>
          \A i \in 1..(Len(csv) - 1) :
              SessionOf(i) > SessionOf(i - 1) => i \in task_boundaries
    /\ (Done /\ InputStrictlySorted) =>
          \A i, j \in 0..(Len(csv) - 1) :
              TaskOf(i) = TaskOf(j) => SessionOf(i) = SessionOf(j)

\* generate_task_segmentation_report: the ids of valid_tasks and the rows
\* task_data of one of them, in frame order
ValidTaskIds == { df[k].task_id : k \in 1..Len(df) } \ {-1}

RECURSIVE TaskRows(_, _, _)
TaskRows(d, t, k) ==
    IF k = 0 THEN <<>>
    ELSE IF d[k].task_id = t THEN Append(TaskRows(d, t, k - 1), d[k])
         ELSE TaskRows(d, t, k - 1)

TaskDataOf(t) == TaskRows(df, t, Len(df))

\* C24: all events of a task share one url, so every task has at most one
\* unique url and the report never labels a task browsing_navigation.
C24_OneUrlPerTask ==
    (Done /\ InputSorted) =>
        \A t \in ValidTaskIds :
            /\ NUniqueUrls(TaskDataOf(t)) <= 1
            /\ classify_task_type(TaskDataOf(t)) # "browsing_navigation"

\* what holds of the code instead: one url per task on a log without equal
\* timestamps
StrictLogOneUrlPerTask ==
    (Done /\ InputStrictlySorted) =>
        \A t \in ValidTaskIds :
            /\ NUniqueUrls(TaskDataOf(t)) <= 1
            /\ classify_task_type(TaskDataOf(t)) # "browsing_navigation"

\* the task starts are the merged boundaries, and are as many
StartsAreBoundaries ==
    /\ \A i \in 0..(Len(csv) - 1) :
          (i = 0 \/ TaskOf(i) # TaskOf(i - 1)) <=> (i = 0 \/ i \in task_boundaries)
    /\ Len(csv) > 0 =>
          Cardinality({ TaskOf(i) : i \in 0..(Len(csv) - 1) })
              = 1 + Cardinality(task_boundaries \ {0})

\* C25: in the assembled partition of a timestamp-sorted log the first index of
\* every task is 0 or a boundary, no other index of a task is a boundary, and
\* there are 1 + (number of boundaries above 0) tasks.
C25_StartsAreBoundaries == (Done /\ InputSorted) => StartsAreBoundaries

\* what holds of the code instead: the same on a log without equal timestamps
StrictLogStartsAreBoundaries == (Done /\ InputStrictlySorted) => StartsAreBoundaries

\* the url of the event at log index i contains a task start keyword
HasTaskStartUrl(i) ==
    /\ csv[i + 1].url # NaN
    /\ \E j \in 1..Len(task_start_patterns) :
          Contains(Lower(csv[i + 1].url), task_start_patterns[j])

\* every event on a task start page is a boundary and is alone in its task; an
\* event without url is no boundary of the rule
StartPagesAreSingletons ==
    /\ \A i \in 0..(Len(csv) - 1) :
          /\ HasTaskStartUrl(i) => i \in TaskStartIndices(df)
          /\ csv[i + 1].url = NaN => i \notin TaskStartIndices(df)
    /\ pc = "done" =>
          \A i, j \in 0..(Len(csv) - 1) :
              (HasTaskStartUrl(i) /\ TaskOf(j) = TaskOf(i)) => j = i

\* C26: on a timestamp-sorted log every event whose url contains a task start
\* keyword is a boundary, so a task with such an event consists of that event
\* alone; an event with an absent url never matches the rule.
C26_StartPagesAreSingletons ==
    (pc \in {"assign", "done"} /\ InputSorted) => StartPagesAreSingletons

\* what holds of the code instead: the same on a log without equal timestamps
StrictLogStartPagesAreSingletons ==
    (pc \in {"assign", "done"} /\ InputStrictlySorted) => StartPagesAreSingletons

----------------------------------------------------------------------------
(* Properties of the list of workflows                                     *)

\* the workflows of the list wfs are the runs that start at the positions
\* starts of workflow_events, each a maximal gap-bounded run, each ending before
\* the next one starts
DisjointRunsInOrder(wfs, starts) ==
    /\ \A i \in 1..Len(wfs) :
          LET b == starts[i] + wfs[i].length - 1
          IN  /\ b <= Len(workflow_events)
              /\ IsRun(wfs[i], starts[i], b)
              /\ MaximalRun(starts[i], b)
    /\ \A i \in 1..(Len(wfs) - 1) : starts[i] + wfs[i].length - 1 < starts[i + 1]

\* C27: the returned workflows are pairwise disjoint contiguous runs of the
\* workflow-relevant events, listed in input order.
C27_DisjointInOrder ==
    pc = "detected" =>
        \E starts \in [1..Len(workflow_patterns) -> 1..Len(workflow_events)] :
            DisjointRunsInOrder(workflow_patterns, starts)

\* two workflows returned, the first one ending more than max_gap before the
\* second one starts
C27_Witness ==
    /\ pc = "detected"
    /\ Len(workflow_patterns) = 2
    /\ Len(workflow_events) = 4
    /\ workflow_patterns[1].sequence = <<SequenceItem(workflow_events[1]),
                                         SequenceItem(workflow_events[2])>>
    /\ workflow_patterns[2].sequence = <<SequenceItem(workflow_events[3]),
                                         SequenceItem(workflow_events[4])>>
    /\ workflow_events[2].timestamp < workflow_events[3].timestamp

\* a run without tab switch was discarded and the run after it returned
DiscardedRunBelongsToNone ==
    /\ pc = "detected"
    /\ Len(workflow_patterns) = 1
    /\ Len(workflow_events) = 4
    /\ workflow_events[1].tab_id = workflow_events[2].tab_id
    /\ workflow_patterns[1].sequence = <<SequenceItem(workflow_events[3]),
                                         SequenceItem(workflow_events[4])>>

\* the tab ids that occur in a sequence
TabIdsIn(seq) == { seq[i].tab_id : i \in 1..Len(seq) }

\* unique_tabs of every emitted workflow is the number of its tab ids, at least 2
UniqueTabsCounted ==
    \A i \in 1..Len(workflows) :
        /\ workflows[i].unique_tabs = Cardinality(TabIdsIn(workflows[i].sequence))
        /\ workflows[i].unique_tabs >= 2

\* C28: for every emitted workflow whose events all have a tab id, unique_tabs
\* is the number of distinct tab ids of its sequence and at least 2, also when
\* one of the ids is 0.
C28_UniqueTabs == AllTabIdsPresent => UniqueTabsCounted

\* what holds of the code instead: the count is right when no tab id is 0
UniqueTabsWithoutZero ==
    (AllTabIdsPresent /\ \A i \in 1..Len(csv) : csv[i].tab_id # 0) => UniqueTabsCounted

----------------------------------------------------------------------------
(* Properties of the pattern signature                                     *)

\* the action_subtype values of a workflow, in order
SubtypesOf(w) == [i \in 1..Len(w.sequence) |-> w.sequence[i].action_subtype]

\* two analysed workflows have one signature exactly when their sequences of
\* action_subtype values are equal, and the patterns are counted accordingly
SignatureInjective ==
    LET wfs == workflow_patterns
        sigs == PatternSignatures(wfs)
    IN  /\ \A i, j \in 1..Len(wfs) :
              sigs[i] = sigs[j] <=> SubtypesOf(wfs[i]) = SubtypesOf(wfs[j])
        /\ efficiency_analysis.unique_patterns
              = Cardinality({ SubtypesOf(wfs[i]) : i \in 1..Len(wfs) })

\* no action_subtype of the analysed workflows contains the text "->"
SeparatorFree ==
    \A i \in 1..Len(workflow_patterns) :
        \A j \in 1..Len(workflow_patterns[i].sequence) :
            workflow_patterns[i].sequence[j].action_subtype \notin WithSeparator

\* C29 as stated: two workflows receive the same signature if and only if
\* their sequences of action_subtype values are equal element by element.
C29_SignatureInjective == pc = "efficiency_analyzed" => SignatureInjective

\* C29, amended: among workflows none of whose action_subtype values contains
\* the separator "->", two workflows receive the same signature if and only if
\* their sequences of action_subtype values are equal element by element.
C29_SeparatorFreeInjective ==
    (pc = "efficiency_analyzed" /\ SeparatorFree) => SignatureInjective

\* two analysed workflows of different lengths without separator in their
\* subtypes, counted as two patterns
C29_Witness ==
    /\ pc = "efficiency_analyzed"
    /\ SeparatorFree
    /\ Len(workflow_patterns) = 2
    /\ workflow_patterns[1].length = 2
    /\ workflow_patterns[2].length = 3
    /\ SubtypesOf(workflow_patterns[1]) = <<"a", "b">>
    /\ SubtypesOf(workflow_patterns[2]) = <<"a", "b", "a">>
    /\ efficiency_analysis.unique_patterns = 2

----------------------------------------------------------------------------
(* Properties of the task patterns found                                   *)

\* the sequence lies in one session: it starts and ends at rows of a run of
\* at least n frame rows that all carry its session_id
InOneSession(task, n) ==
    \E a, b \in 1..Len(df) :
        /\ b - a + 1 >= n
        /\ \A k \in a..b : df[k].session_id = task.session_id
        /\ task.start_time = df[a].timestamp
        /\ task.end_time = df[b].timestamp

\* C30: every sequence find_pattern_sequences returns lies within a single
\* session and has completed = true, so the success_rate reported for a
\* pattern with at least one match is exactly 1.
C30_SuccessRateIsOne ==
    pc = "task_efficiency_analyzed" =>
        \A name \in DOMAIN task_stats :
            LET entry == task_stats[name]
            IN  /\ entry.count >= 1
                /\ entry.tasks = find_pattern_sequences(df, task_patterns[name],
                                                        DefaultWindowSize)
                /\ \A k \in 1..Len(entry.tasks) :
                      /\ entry.tasks[k].completed
                      /\ InOneSession(entry.tasks[k], Len(task_patterns[name]))
                /\ entry.success_rate = <<entry.count, entry.count>>

\* two clicks in each of two sessions: one navigation task per session
C30_Witness ==
    /\ pc = "task_efficiency_analyzed"
    /\ "navigation_task" \in DOMAIN task_stats
    /\ task_stats["navigation_task"].count = 2
    /\ task_stats["navigation_task"].tasks[1].session_id = 0
    /\ task_stats["navigation_task"].tasks[2].session_id = 1
    /\ task_stats["navigation_task"].tasks[1].duration = 0
    /\ task_stats["navigation_task"].success_rate = <<2, 2>>

====
